---- MODULE Spec2Model ----
(***************************************************************************)
(* Model of two building blocks of the RustCrypto `traits` repository:     *)
(*   - elliptic-curve/src/scalar/nonzero.rs : NonZeroScalar<C>             *)
(*   - cipher/src/stream.rs                 : StreamCipher, SeekNum        *)
(*                                                                         *)
(* Four specifications share the module.  SpecScalar drives the            *)
(* NonZeroScalar operations over a prime field, SpecSeek the SeekNum       *)
(* position codec, SpecCipher the keystream application driver, and        *)
(* SpecErrors the calls whose errors are compared.                         *)
(***************************************************************************)
EXTENDS Integers, Sequences, FiniteSets, TLC

VARIABLES order, nz, ret, pos

vars == <<order, nz, ret, pos>>

(***************************************************************************)
(* Bounds of the model.                                                    *)
(***************************************************************************)
\* Largest field modulus tried (the scalar field of C has prime order).
MaxModulus == 7
\* Number of NonZeroScalar variables the caller holds.
NSlots == 2
\* Longest collection handed to batch_invert.
MaxBatch == 2
\* Largest byte value tried in a FieldBytes<C> encoding.
MaxReprByte == 8

(***************************************************************************)
(* The field engine: Scalar<C>, a prime field of `order` elements.         *)
(***************************************************************************)
IsPrime(n) == n > 1 /\ \A d \in 2..(n - 1) : n % d # 0

Moduli == {n \in 2..MaxModulus : IsPrime(n)}

Field == 0..(order - 1)

ZERO == 0

ONE == 1

is_zero(s) == s = ZERO

ScalarMul(a, b) == (a * b) % order

ScalarNeg(a) == (order - a) % order

RECURSIVE ScalarPow(_, _)
ScalarPow(a, e) == IF e = 0 THEN 1 % order ELSE (a * ScalarPow(a, e - 1)) % order

\* CtOption<T>: the value is always carried, is_some says if it is present.
CtOption(v, c) == [value |-> v, is_some |-> c]

\* Invert::invert for Scalar<C>: absent for zero, else a^(order-2).
ScalarInvert(a) == CtOption(ScalarPow(a, order - 2), ~is_zero(a) )

\* The width of FieldBytes<C> in bytes.
FieldLen == 1

ByteBase == 256

RECURSIVE BigEndian(_)
BigEndian(bytes) ==
    IF Len(bytes) = 0 THEN 0
    ELSE BigEndian(SubSeq(bytes, 1, Len(bytes) - 1)) * ByteBase + bytes[Len(bytes)]

RECURSIVE ToBigEndian(_, _)
ToBigEndian(v, n) ==
    IF n = 0 THEN <<>>
    ELSE Append(ToBigEndian(v \div ByteBase, n - 1), v % ByteBase)

\* PrimeField::from_repr: the canonical big endian decoding, absent when the
\* integer is not below the modulus.
ScalarFromRepr(repr) ==
    LET v == BigEndian(repr)
    IN  CtOption(IF v < order THEN v ELSE 0, v < order)

\* PrimeField::to_repr.
ScalarToRepr(s) == ToBigEndian(s, FieldLen)

(***************************************************************************)
(* NonZeroScalar<C> (elliptic-curve/src/scalar/nonzero.rs).                *)
(***************************************************************************)
\* struct NonZeroScalar { scalar: Scalar<C> }
NonZeroScalar(s) == [scalar |-> s]

\* NonZeroScalar::new with the negation of is_zero dropped.
new_no_negation(scalar) == CtOption(NonZeroScalar(scalar), is_zero(scalar))

\* NonZeroScalar::new
new(scalar) == CtOption(NonZeroScalar(scalar), ~is_zero(scalar))

\* NonZeroScalar::from_repr reducing the integer instead of rejecting it.
from_repr_reduced(repr) == new(BigEndian(repr) % order)

\* NonZeroScalar::from_repr
from_repr(repr) ==
    LET s == ScalarFromRepr(repr)
        r == new(s.value)
    IN  CtOption(r.value, s.is_some /\ r.is_some)

\* to_repr through Deref<Target = Scalar<C>>
to_repr(a) == ScalarToRepr(a.scalar)

\* ConditionallySelectable::conditional_select: a for choice 0, b for choice 1
conditional_select(a, b, choice) ==
    NonZeroScalar(IF choice = 1 THEN b.scalar ELSE a.scalar)

\* CtOption::unwrap panics on an absent value.
Unwrap(opt) == [panicked |-> ~opt.is_some, value |-> opt.value]

\* Invert::invert; the unwrap cannot fail on a non-zero scalar.
invert(a) == NonZeroScalar(Unwrap(ScalarInvert(a.scalar)).value)

\* Invert::invert_vartime
invert_vartime(a) == NonZeroScalar(Unwrap(ScalarInvert(a.scalar)).value)

\* Neg::neg
neg(a) == NonZeroScalar(ScalarNeg(a.scalar))

\* Mul<&NonZeroScalar<C>>::mul
mul(a, b) == NonZeroScalar(ScalarMul(a.scalar, b.scalar))

\* Zeroize::zeroize writing the additive identity back.
zeroize_to_zero(a) == NonZeroScalar(ZERO)

\* Zeroize::zeroize clearing a copy: the value stays as it was.
zeroize_copy(a) == a

\* Zeroize::zeroize: the scalar is cleared, then ONE is written.
zeroize(a) == [[a EXCEPT !.scalar = ZERO] EXCEPT !.scalar = ONE]

\* ops::invert_batch_internal: prefix products, one inversion of the total,
\* then a backward walk recovering each inverse.
RECURSIVE PrefixProduct(_, _)
PrefixProduct(elems, i) ==
    IF i = 1 THEN elems[1] ELSE mul(PrefixProduct(elems, i - 1), elems[i])

RECURSIVE BackwardWalk(_, _, _)
BackwardWalk(elems, i, acc) ==
    IF i = 0 THEN <<>>
    ELSE IF i = 1 THEN <<acc>>
    ELSE Append(BackwardWalk(elems, i - 1, mul(acc, elems[i])),
                mul(acc, PrefixProduct(elems, i - 1)))

invert_batch_internal(elems) ==
    IF Len(elems) = 0 THEN <<>>
    ELSE BackwardWalk(elems, Len(elems), invert(PrefixProduct(elems, Len(elems))))

\* The field inversions invert_batch_internal makes: one, of the total
\* product, and none for an empty collection.
BatchInversions(elems) == IF Len(elems) = 0 THEN 0 ELSE 1

\* batch_invert returning field_elements_pad, the scratch collection of ONEs.
batch_invert_pad(field_elements) ==
    [n \in 1..Len(field_elements) |-> NonZeroScalar(ONE)]

\* BatchInvert<[Self; N]>::batch_invert and BatchInvert<Vec<Self>>::batch_invert
batch_invert(field_elements) == invert_batch_internal(field_elements)

\* Result<T, E>
Ok(v) == [is_ok |-> TRUE, value |-> v]

Err(e) == [is_ok |-> FALSE, err |-> e]

\* struct Error (elliptic-curve/src/error.rs): a unit struct, one value.
Error == "Error"

\* impl From<base16ct::Error> for Error
ErrorFromBase16ct(e) == Error

\* impl From<core::array::TryFromSliceError> for Error
ErrorFromTryFromSliceError(e) == Error

HexLower == <<"0", "1", "2", "3", "4", "5", "6", "7", "8", "9", "a", "b", "c", "d", "e", "f">>

HexUpper == <<"0", "1", "2", "3", "4", "5", "6", "7", "8", "9", "A", "B", "C", "D", "E", "F">>

IsHexChar(c) == \E k \in 1..16 : HexLower[k] = c \/ HexUpper[k] = c

\* The value of a hexadecimal digit of either case.
Nibble(c) == (CHOOSE k \in 1..16 : HexLower[k] = c \/ HexUpper[k] = c) - 1

\* base16ct::mixed::decode(src, dst): the decoded prefix of dst, or an error
\* for an odd length, a source longer than dst holds, or a non-hex character.
MixedDecode(src, dstLen) ==
    IF Len(src) % 2 # 0 \/ Len(src) \div 2 > dstLen THEN Err("InvalidLength")
    ELSE IF \E k \in 1..Len(src) : ~IsHexChar(src[k]) THEN Err("InvalidEncoding")
    ELSE Ok([k \in 1..(Len(src) \div 2) |->
                Nibble(src[2 * k - 1]) * 16 + Nibble(src[2 * k])])

\* CtOption::into_option followed by Option::ok_or
OkOr(opt, e) == IF opt.is_some THEN Ok(opt.value) ELSE Err(e)

\* impl FromStr for NonZeroScalar<C>
from_str(hex) ==
    LET d == MixedDecode(hex, FieldLen)
    IN  IF ~d.is_ok THEN Err(ErrorFromBase16ct(d.err))
        ELSE IF Len(d.value) = FieldLen THEN OkOr(from_repr(d.value), Error)
        ELSE Err(Error)

\* impl TryFrom<&[u8]> for NonZeroScalar<C>
try_from(bytes) ==
    IF Len(bytes) # FieldLen THEN Err(ErrorFromTryFromSliceError("TryFromSliceError"))
    ELSE OkOr(from_repr(bytes), Error)

(***************************************************************************)
(* The NonZeroScalar state machine.  nz maps the caller's variables that   *)
(* hold a NonZeroScalar to their values; ret is the last call, with its    *)
(* arguments and what it returned (out: the NonZeroScalars it returned).   *)
(***************************************************************************)
Slots == 1..NSlots

Bound == DOMAIN nz

Bind(i, a) == [j \in Bound \cup {i} |-> IF j = i THEN a ELSE nz[j]]

ReprBytes == 0..MaxReprByte

Reprs == [1..FieldLen -> ReprBytes]

RECURSIVE SeqsUpTo(_, _)
SeqsUpTo(S, n) ==
    IF n = 0 THEN {<<>>}
    ELSE LET shorter == SeqsUpTo(S, n - 1)
         IN  shorter \cup {Append(q, x) : q \in {t \in shorter : Len(t) = n - 1}, x \in S}

NoCall == [op |-> "none", out |-> <<>>]

InitScalar ==
    /\ order \in Moduli
    /\ nz = <<>>
    /\ ret = NoCall
    /\ pos = 0

\* let nz[i] = NonZeroScalar::new(v), kept when present
New(i, v) ==
    LET r == new(v)
    IN  /\ ret' = [op |-> "new", arg |-> v, result |-> r,
                   out |-> IF r.is_some THEN <<r.value>> ELSE <<>>]
        /\ nz' = IF r.is_some THEN Bind(i, r.value) ELSE nz
        /\ UNCHANGED <<order, pos>>

\* NonZeroScalar::random: rejection sampling until new() is present
Random(i) ==
    \E v \in Field :
        /\ new(v).is_some
        /\ ret' = [op |-> "random", out |-> <<new(v).value>>]
        /\ nz' = Bind(i, new(v).value)
        /\ UNCHANGED <<order, pos>>

FromRepr(i, repr) ==
    LET r == from_repr(repr)
    IN  /\ ret' = [op |-> "from_repr", arg |-> repr, result |-> r,
                   out |-> IF r.is_some THEN <<r.value>> ELSE <<>>]
        /\ nz' = IF r.is_some THEN Bind(i, r.value) ELSE nz
        /\ UNCHANGED <<order, pos>>

ToRepr(i) ==
    /\ i \in Bound
    /\ ret' = [op |-> "to_repr", arg |-> nz[i], result |-> to_repr(nz[i]), out |-> <<>>]
    /\ UNCHANGED <<order, nz, pos>>

Mul(i, j, k) ==
    /\ i \in Bound /\ j \in Bound
    /\ ret' = [op |-> "mul", out |-> <<mul(nz[i], nz[j])>>]
    /\ nz' = Bind(k, mul(nz[i], nz[j]))
    /\ UNCHANGED <<order, pos>>

\* *self = *self * rhs
MulAssign(i, j) ==
    /\ i \in Bound /\ j \in Bound
    /\ ret' = [op |-> "mul_assign", out |-> <<>>]
    /\ nz' = Bind(i, mul(nz[i], nz[j]))
    /\ UNCHANGED <<order, pos>>

Neg(i, k) ==
    /\ i \in Bound
    /\ ret' = [op |-> "neg", out |-> <<neg(nz[i])>>]
    /\ nz' = Bind(k, neg(nz[i]))
    /\ UNCHANGED <<order, pos>>

InvertOp(i, k) ==
    /\ i \in Bound
    /\ ret' = [op |-> "invert", arg |-> nz[i], out |-> <<invert(nz[i])>>]
    /\ nz' = Bind(k, invert(nz[i]))
    /\ UNCHANGED <<order, pos>>

InvertVartime(i, k) ==
    /\ i \in Bound
    /\ ret' = [op |-> "invert_vartime", arg |-> nz[i], out |-> <<invert_vartime(nz[i])>>]
    /\ nz' = Bind(k, invert_vartime(nz[i]))
    /\ UNCHANGED <<order, pos>>

\* batch_invert of a collection built from the caller's values
BatchInvert(idx) ==
    /\ \A n \in 1..Len(idx) : idx[n] \in Bound
    /\ LET elems == [n \in 1..Len(idx) |-> nz[idx[n]]]
       IN  ret' = [op |-> "batch_invert", arg |-> elems, out |-> batch_invert(elems),
                   inversions |-> BatchInversions(elems)]
    /\ UNCHANGED <<order, nz, pos>>

ConditionalSelect(i, j, choice, k) ==
    /\ i \in Bound /\ j \in Bound
    /\ ret' = [op |-> "conditional_select", out |-> <<conditional_select(nz[i], nz[j], choice)>>]
    /\ nz' = Bind(k, conditional_select(nz[i], nz[j], choice))
    /\ UNCHANGED <<order, pos>>

Zeroize(i) ==
    /\ i \in Bound
    /\ ret' = [op |-> "zeroize", slot |-> i, before |-> nz[i], out |-> <<>>,
               again |-> (ret.op = "zeroize" /\ ret.slot = i)]
    /\ nz' = Bind(i, zeroize(nz[i]))
    /\ UNCHANGED <<order, pos>>

NextScalar ==
    \/ \E i \in Slots, v \in Field : New(i, v)
    \/ \E i \in Slots : Random(i)
    \/ \E i \in Slots, repr \in Reprs : FromRepr(i, repr)
    \/ \E i \in Slots : ToRepr(i)
    \/ \E i, j, k \in Slots : Mul(i, j, k)
    \/ \E i, j \in Slots : MulAssign(i, j)
    \/ \E i, k \in Slots : Neg(i, k)
    \/ \E i, k \in Slots : InvertOp(i, k)
    \/ \E i, k \in Slots : InvertVartime(i, k)
    \/ \E idx \in SeqsUpTo(Slots, MaxBatch) : BatchInvert(idx)
    \/ \E i, j, k \in Slots, choice \in {0, 1} : ConditionalSelect(i, j, choice, k)
    \/ \E i \in Slots : Zeroize(i)

SpecScalar == InitScalar /\ [][NextScalar]_vars

(***************************************************************************)
(* C1: every NonZeroScalar in existence -- held by the caller or returned  *)
(* by the last call -- wraps a scalar different from the field's zero.     *)
(***************************************************************************)
NonZeroInvariant ==
    /\ \A i \in Bound : nz[i].scalar # ZERO
    /\ \A n \in 1..Len(ret.out) : ret.out[n].scalar # ZERO

\* A zeroized value and a product are held at once, and a batch was inverted.
NonZeroWitness ==
    /\ ret.op = "batch_invert" /\ Len(ret.out) = MaxBatch
    /\ Bound = Slots
    /\ \E i \in Bound : nz[i].scalar = order - 1 /\ order > 2

NewPresentIffNonZero ==
    ret.op = "new" =>
        /\ ret.result.is_some <=> ret.arg # 0
        /\ ret.result.is_some => ret.result.value.scalar = ret.arg
        /\ ret.arg = 0 => ~ret.result.is_some

NewWitness ==
    /\ ret.op = "new" /\ ret.arg = 0 /\ ~ret.result.is_some
    /\ \E i \in Bound : nz[i].scalar = order - 1

(***************************************************************************)
(* C9: after zeroize() the wrapped scalar is ONE, never zero, and a second *)
(* zeroize() leaves it ONE.                                                *)
(***************************************************************************)
ZeroizeWritesOne ==
    ret.op = "zeroize" =>
        /\ nz[ret.slot].scalar = ONE
        /\ nz[ret.slot].scalar # ZERO
        /\ ret.again => ret.before.scalar = ONE

\* zeroize() ran twice in a row on one value of a field with more than 2 elements.
ZeroizeWitness == ret.op = "zeroize" /\ ret.again /\ order > 2

(***************************************************************************)
(* C10: from_repr(to_repr(a)) is present and equal to a for every          *)
(* NonZeroScalar a, and to_repr(from_repr(b)) = b for every encoding b     *)
(* that from_repr accepts.                                                 *)
(***************************************************************************)
ReprRoundTrip ==
    /\ \A v \in Field \ {ZERO} :
          /\ new(v).is_some
          /\ from_repr(to_repr(new(v).value)) = new(v)
    /\ ret.op = "to_repr" => from_repr(ret.result) = CtOption(ret.arg, TRUE)
    /\ ret.op = "from_repr" /\ ret.result.is_some => to_repr(ret.result.value) = ret.arg

\* The largest element of the largest field was decoded from its encoding.
ReprRoundTripWitness ==
    /\ ret.op = "from_repr" /\ ret.result.is_some
    /\ ret.result.value.scalar = order - 1 /\ order = MaxModulus

(***************************************************************************)
(* The keystream application driver (cipher/src/stream.rs).                *)
(***************************************************************************)
\* Bytes of keystream the cipher can produce in all.
KeystreamLen == 2
\* Longest buffer handed to the driver.
MaxBufLen == 2
\* Largest byte value placed in a buffer.
MaxBufByte == 1

\* struct StreamCipherError: a unit struct, one value.
StreamCipherError == "StreamCipherError"

\* The i-th byte of the keystream (i from 0).
KeystreamByte(i) == (73 * i + 41) % ByteBase

RECURSIVE Xor(_, _)
Xor(a, b) ==
    IF a = 0 /\ b = 0 THEN 0
    ELSE (((a % 2) + (b % 2)) % 2) + 2 * Xor(a \div 2, b \div 2)

\* InOutBuf: an input and an output of one length.
InOutBuf(input, output) == [in |-> input, out |-> output]

\* InOutBuf::new: NotEqualError when the lengths differ.
InOutBuf_new(input, output) ==
    IF Len(input) # Len(output) THEN Err("NotEqualError")
    ELSE Ok(InOutBuf(input, output))

\* impl From<&mut [u8]> for InOutBuf: input and output are the same bytes.
InOutBuf_from(buf) == InOutBuf(buf, buf)

\* StreamCipher::try_apply_keystream_inout at keystream position p: an error
\* that leaves the data alone when the keystream would end, else the XOR.
\* The outcome: the result, the output bytes, the position, and how often
\* try_apply_keystream_inout ran.
try_apply_keystream_inout(p, buf) ==
    IF Len(buf.in) > KeystreamLen - p
    THEN [result |-> Err(StreamCipherError), out |-> buf.out, pos |-> p, invoked |-> 1]
    ELSE [result |-> Ok(<<>>),
          out |-> [k \in 1..Len(buf.in) |-> Xor(buf.in[k], KeystreamByte(p + k - 1))],
          pos |-> p + Len(buf.in), invoked |-> 1]

\* try_apply_keystream clearing the buffer first, as try_write_keystream does.
try_apply_keystream_cleared(p, buf) ==
    try_apply_keystream_inout(p, InOutBuf_from([k \in 1..Len(buf) |-> 0]))

\* StreamCipher::try_apply_keystream
try_apply_keystream(p, buf) == try_apply_keystream_inout(p, InOutBuf_from(buf))

\* StreamCipher::try_write_keystream: buf.fill(0), then try_apply_keystream
try_write_keystream(p, buf) ==
    LET filled == [k \in 1..Len(buf) |-> 0]
    IN  try_apply_keystream(p, filled)

\* Result::unwrap of a driver outcome: a panic on an error.
UnwrapOutcome(o) == [o EXCEPT !.result = IF o.result.is_ok THEN o.result ELSE Err("panic")]

\* StreamCipher::apply_keystream_inout
apply_keystream_inout(p, buf) == UnwrapOutcome(try_apply_keystream_inout(p, buf))

\* StreamCipher::apply_keystream
apply_keystream(p, buf) == UnwrapOutcome(try_apply_keystream(p, buf))

\* StreamCipher::write_keystream
write_keystream(p, buf) == UnwrapOutcome(try_write_keystream(p, buf))

\* The closure of map_err keeping the error it is given.
MapErrKept(e) == e

\* map_err(|_| StreamCipherError)
MapErr(e) == StreamCipherError

\* apply_keystream_b2b working on the common prefix of unequal buffers.
apply_keystream_b2b_prefix(p, input, output) ==
    LET n == IF Len(input) < Len(output) THEN Len(input) ELSE Len(output)
        o == try_apply_keystream_inout(p, InOutBuf(SubSeq(input, 1, n), SubSeq(output, 1, n)))
    IN  [o EXCEPT !.out = o.out \o SubSeq(output, n + 1, Len(output))]

\* StreamCipher::apply_keystream_b2b
apply_keystream_b2b(p, input, output) ==
    LET b == InOutBuf_new(input, output)
    IN  IF ~b.is_ok
        THEN [result |-> Err(MapErr(b.err)), out |-> output, pos |-> p, invoked |-> 0]
        ELSE try_apply_keystream_inout(p, b.value)

(***************************************************************************)
(* The driver's state machine: pos is the number of keystream bytes the    *)
(* cipher has produced; ret holds the last call, its buffers before and    *)
(* after, and its result.                                                  *)
(***************************************************************************)
Bufs == SeqsUpTo(0..MaxBufByte, MaxBufLen)

\* Output buffers start filled with one byte value.
OutBufs == {[k \in 1..n |-> b] : n \in 0..MaxBufLen, b \in 0..MaxBufByte}

InitCipher ==
    /\ order = 2
    /\ nz = <<>>
    /\ ret = NoCall
    /\ pos = 0

\* The call `name` on `input`, writing over `before`, had outcome o.
Driver(name, input, before, o) ==
    /\ ret' = [op |-> name, input |-> input, before |-> before, pos_before |-> pos,
               result |-> o.result, after |-> o.out, invoked |-> o.invoked, out |-> <<>>]
    /\ pos' = o.pos
    /\ UNCHANGED <<order, nz>>

TryApplyKeystreamInout(input, output) ==
    /\ Len(input) = Len(output)
    /\ Driver("try_apply_keystream_inout", input, output,
              try_apply_keystream_inout(pos, InOutBuf(input, output)))

TryApplyKeystream(buf) ==
    Driver("try_apply_keystream", buf, buf, try_apply_keystream(pos, buf))

TryWriteKeystream(buf) ==
    Driver("try_write_keystream", buf, buf, try_write_keystream(pos, buf))

ApplyKeystreamInout(input, output) ==
    /\ Len(input) = Len(output)
    /\ Driver("apply_keystream_inout", input, output,
              apply_keystream_inout(pos, InOutBuf(input, output)))

ApplyKeystream(buf) ==
    Driver("apply_keystream", buf, buf, apply_keystream(pos, buf))

WriteKeystream(buf) ==
    Driver("write_keystream", buf, buf, write_keystream(pos, buf))

ApplyKeystreamB2b(input, output) ==
    Driver("apply_keystream_b2b", input, output, apply_keystream_b2b(pos, input, output))

NextCipher ==
    \/ \E input \in Bufs, output \in OutBufs : TryApplyKeystreamInout(input, output)
    \/ \E buf \in Bufs : TryApplyKeystream(buf)
    \/ \E buf \in Bufs : TryWriteKeystream(buf)
    \/ \E input \in Bufs, output \in OutBufs : ApplyKeystreamInout(input, output)
    \/ \E buf \in Bufs : ApplyKeystream(buf)
    \/ \E buf \in Bufs : WriteKeystream(buf)
    \/ \E input \in Bufs, output \in OutBufs : ApplyKeystreamB2b(input, output)

SpecCipher == InitCipher /\ [][NextCipher]_vars

\* Keystream bytes left before the last call.
Remaining == KeystreamLen - ret.pos_before

(***************************************************************************)
(* C5: with N keystream bytes left, try_apply_keystream(_inout) on more    *)
(* than N bytes is an error that changes neither the buffer nor N; on      *)
(* L <= N bytes it succeeds, every output byte is the input byte XOR the   *)
(* next keystream byte, and exactly L keystream bytes are consumed.        *)
(***************************************************************************)
KeystreamAllOrNothing ==
    ret.op \in {"try_apply_keystream", "try_apply_keystream_inout"} =>
        LET L == Len(ret.input)
        IN  /\ L > Remaining =>
                /\ ~ret.result.is_ok /\ ret.result.err = StreamCipherError
                /\ ret.after = ret.before
                /\ pos = ret.pos_before
            /\ L <= Remaining =>
                /\ ret.result.is_ok
                /\ Len(ret.after) = L
                /\ \A k \in 1..L :
                      ret.after[k] = Xor(ret.input[k], KeystreamByte(ret.pos_before + k - 1))
                /\ pos = ret.pos_before + L

\* After earlier calls left N > 0 bytes, N + 1 non-zero bytes were refused.
KeystreamWitness ==
    /\ ret.op = "try_apply_keystream"
    /\ ret.pos_before > 0 /\ Remaining > 0
    /\ Len(ret.input) = Remaining + 1
    /\ \A k \in 1..Len(ret.input) : ret.input[k] # 0
    /\ ~ret.result.is_ok

(***************************************************************************)
(* C6: when try_write_keystream(buf) returns StreamCipherError, buf holds  *)
(* after the call what it held before it.                                  *)
(***************************************************************************)
WriteKeystreamErrorKeepsBuf ==
    ret.op = "try_write_keystream" /\ ~ret.result.is_ok => ret.after = ret.before

(***************************************************************************)
(* C7: apply_keystream_b2b on buffers of different lengths is an error     *)
(* that writes no byte of output and does not run                          *)
(* try_apply_keystream_inout, so the keystream position stays; on equal    *)
(* lengths it does what try_apply_keystream_inout does on the pair.        *)
(***************************************************************************)
B2bLengthMismatch ==
    ret.op = "apply_keystream_b2b" =>
        /\ Len(ret.input) # Len(ret.before) =>
              /\ ~ret.result.is_ok
              /\ ret.after = ret.before
              /\ ret.invoked = 0
              /\ pos = ret.pos_before
        /\ Len(ret.input) = Len(ret.before) =>
              LET o == try_apply_keystream_inout(ret.pos_before,
                                                 InOutBuf(ret.input, ret.before))
              IN  /\ ret.result = o.result
                  /\ ret.after = o.out
                  /\ pos = o.pos
                  /\ ret.invoked = 1

\* An input one byte longer than a non-empty output, with keystream left.
B2bWitness ==
    /\ ret.op = "apply_keystream_b2b"
    /\ Len(ret.before) > 0 /\ Len(ret.input) = Len(ret.before) + 1
    /\ Len(ret.input) <= Remaining
    /\ ~ret.result.is_ok

(***************************************************************************)
(* Decoding a NonZeroScalar, and the errors of the two crates.             *)
(***************************************************************************)
HexChars == {"0", "1", "a", "A", "g"}

HexStrings == SeqsUpTo(HexChars, 2 * FieldLen + 1)

ByteStrings == SeqsUpTo(ReprBytes, FieldLen + 1)

FromStr(hex) ==
    LET r == from_str(hex)
    IN  /\ ret' = [op |-> "from_str", arg |-> hex, result |-> r,
                   out |-> IF r.is_ok THEN <<r.value>> ELSE <<>>]
        /\ UNCHANGED <<order, nz, pos>>

TryFrom(bytes) ==
    LET r == try_from(bytes)
    IN  /\ ret' = [op |-> "try_from", arg |-> bytes, result |-> r,
                   out |-> IF r.is_ok THEN <<r.value>> ELSE <<>>]
        /\ UNCHANGED <<order, nz, pos>>

InitErrors ==
    /\ order \in Moduli
    /\ nz = <<>>
    /\ ret = NoCall
    /\ pos = 0

NextErrors ==
    \/ \E input \in Bufs, output \in OutBufs : ApplyKeystreamB2b(input, output)
    \/ \E hex \in HexStrings : FromStr(hex)
    \/ \E bytes \in ByteStrings : TryFrom(bytes)

SpecErrors == InitErrors /\ [][NextErrors]_vars

\* Why the call r failed, read off its arguments; "none" when no kind of
\* the claim applies.
B2bKind(r) ==
    IF r.op # "apply_keystream_b2b" THEN "none"
    ELSE IF Len(r.input) # Len(r.before) THEN "length_mismatch"
    ELSE IF Len(r.input) > KeystreamLen - r.pos_before THEN "keystream_exhausted"
    ELSE "none"

DecodeKind(r) ==
    IF r.op = "from_str"
    THEN IF Len(r.arg) # 2 * FieldLen \/ \E k \in 1..Len(r.arg) : ~IsHexChar(r.arg[k])
         THEN "malformed"
         ELSE IF \A k \in 1..Len(r.arg) : Nibble(r.arg[k]) = 0 THEN "zero" ELSE "none"
    ELSE IF r.op = "try_from"
    THEN IF Len(r.arg) # FieldLen THEN "malformed"
         ELSE IF \A k \in 1..Len(r.arg) : r.arg[k] = 0 THEN "zero" ELSE "none"
    ELSE "none"

(***************************************************************************)
(* C8 as stated: the error of apply_keystream_b2b for a length mismatch    *)
(* differs from its error for keystream exhaustion, and the error of       *)
(* from_str / TryFrom<&[u8]> for a malformed encoding differs from the     *)
(* error for an encoding of zero.  Stated over two calls in a row.         *)
(***************************************************************************)
ErrorsDistinguishKinds ==
    [][/\ (B2bKind(ret) # "none" /\ B2bKind(ret') # "none" /\ B2bKind(ret) # B2bKind(ret'))
            => ret.result.err # ret'.result.err
       /\ (DecodeKind(ret) # "none" /\ DecodeKind(ret') # "none"
              /\ DecodeKind(ret) # DecodeKind(ret'))
            => ret.result.err # ret'.result.err]_vars

(***************************************************************************)
(* C8 as amended: each of the four cases is an error, but the errors do    *)
(* not tell the kinds apart: both errors of apply_keystream_b2b are the    *)
(* one value StreamCipherError, both decoding errors the one value Error.  *)
(***************************************************************************)
ErrorsAreOpaque ==
    /\ B2bKind(ret) # "none" =>
          ~ret.result.is_ok /\ ret.result.err = StreamCipherError
    /\ DecodeKind(ret) # "none" =>
          ~ret.result.is_ok /\ ret.result.err = Error

\* A length mismatch was reported after keystream had been consumed.
ErrorsWitness ==
    /\ B2bKind(ret) = "length_mismatch"
    /\ ret.pos_before > 0
    /\ ~ret.result.is_ok

(***************************************************************************)
(* The position codec: impl_seek_num! { i32 u32 u64 u128 usize }.          *)
(*                                                                         *)
(* The integer types are modelled at reduced widths that keep their order: *)
(* u8 is narrower than every position type, i32 and u32 have WordBits      *)
(* bits, u64 and usize (a 64-bit target) one more, u128 two more.          *)
(***************************************************************************)
WordBits == 5

RECURSIVE Pow2(_)
Pow2(n) == IF n = 0 THEN 1 ELSE 2 * Pow2(n - 1)

SeekTypes == {"i32", "u32", "u64", "u128", "usize"}

\* The block counter types (StreamCipherCounter).
CounterTypes == {"u32", "u64", "u128"}

Bits(t) ==
    CASE t = "u8" -> WordBits - 2
      [] t \in {"i32", "u32"} -> WordBits
      [] t \in {"u64", "usize"} -> WordBits + 1
      [] t = "u128" -> WordBits + 2

Signed(t) == t = "i32"

MinOf(t) == IF Signed(t) THEN -Pow2(Bits(t) - 1) ELSE 0

MaxOf(t) == IF Signed(t) THEN Pow2(Bits(t) - 1) - 1 ELSE Pow2(Bits(t)) - 1

Values(t) == MinOf(t)..MaxOf(t)

Fits(v, t) == MinOf(t) <= v /\ v <= MaxOf(t)

\* Option<T>
Some(v) == [is_some |-> TRUE, value |-> v]

None == [is_some |-> FALSE, value |-> 0]

checked_sub(a, b, t) == IF Fits(a - b, t) THEN Some(a - b) ELSE None

checked_mul(a, b, t) == IF Fits(a * b, t) THEN Some(a * b) ELSE None

\* a * b wrapped to the width of t.
wrapping_mul(a, b, t) ==
    LET m == Pow2(Bits(t))
        w == (a * b) % m
    IN  Some(IF Signed(t) /\ w > MaxOf(t) THEN w - m ELSE w)

\* TryFrom / TryInto between integer types
try_into(v, t) == IF Fits(v, t) THEN Ok(v) ELSE Err("TryFromIntError")

\* `v as t`: the value wrapped to the width of t.
as_cast(v, t) ==
    LET m == Pow2(Bits(t))
        w == v % m
    IN  IF Signed(t) /\ w > MaxOf(t) THEN w - m ELSE w

\* Rust's / and % truncate towards zero.
TruncDiv(a, b) == IF a >= 0 THEN a \div b ELSE -((-a) \div b)

TruncRem(a, b) == a - b * TruncDiv(a, b)

\* struct OverflowError: a unit struct.
OverflowError == "OverflowError"

\* from_block_byte with wrapping_mul in the place of checked_mul.
from_block_byte_wrapping(S, block, byte, block_size) ==
    LET rem == checked_sub(block_size, byte, "u8")
        blk == try_into(block, S)
    IN  IF ~rem.is_some THEN Err(OverflowError)
        ELSE IF ~blk.is_ok THEN Err(OverflowError)
        ELSE LET product == wrapping_mul(blk.value, block_size, S)
                 v == IF product.is_some
                      THEN checked_sub(product.value, rem.value, S) ELSE None
             IN  IF v.is_some THEN Ok(v.value) ELSE Err(OverflowError)

\* from_block_byte as block * block_size + byte.
from_block_byte_additive(S, block, byte, block_size) ==
    LET blk == try_into(block, S)
    IN  IF ~blk.is_ok THEN Err(OverflowError)
        ELSE LET product == checked_mul(blk.value, block_size, S)
                 v == IF product.is_some
                      THEN checked_sub(product.value, -byte, S) ELSE None
             IN  IF v.is_some THEN Ok(v.value) ELSE Err(OverflowError)

\* <S as SeekNum>::from_block_byte::<T>(block, byte, block_size)
from_block_byte(S, block, byte, block_size) ==
    LET rem == checked_sub(block_size, byte, "u8")
        blk == try_into(block, S)
    IN  IF ~rem.is_some THEN Err(OverflowError)
        ELSE IF ~blk.is_ok THEN Err(OverflowError)
        ELSE LET product == checked_mul(blk.value, block_size, S)
                 v == IF product.is_some
                      THEN checked_sub(product.value, rem.value, S) ELSE None
             IN  IF v.is_some THEN Ok(v.value) ELSE Err(OverflowError)

\* into_block_byte casting the quotient with `as` in the place of try_from.
into_block_byte_cast(S, T, self, block_size) ==
    IF block_size = 0 THEN Err("panic")
    ELSE Ok(<<as_cast(TruncDiv(self, block_size), T),
              as_cast(TruncRem(self, block_size), "u8")>>)

\* <S as SeekNum>::into_block_byte::<T>(self, block_size); the remainder of
\* a division by zero panics.
into_block_byte(S, T, self, block_size) ==
    LET bs == block_size
    IN  IF bs = 0 THEN Err("panic")
        ELSE LET byte == as_cast(TruncRem(self, bs), "u8")
                 block == try_into(TruncDiv(self, bs), T)
             IN  IF ~block.is_ok THEN Err(OverflowError)
                 ELSE Ok(<<block.value, byte>>)

(***************************************************************************)
(* The codec is a pair of pure functions: the initial state draws a call   *)
(* and its arguments, the actions make the call.                           *)
(***************************************************************************)
FromBlockByteCall(s, t, b, y, z) ==
    [op |-> "call", fn |-> "from_block_byte", S |-> s, T |-> t, block |-> b,
     byte |-> y, bs |-> z]

IntoBlockByteCall(s, t, p, z) ==
    [op |-> "call", fn |-> "into_block_byte", S |-> s, T |-> t, position |-> p, bs |-> z]

InitSeek ==
    /\ order = 2
    /\ nz = <<>>
    /\ pos = 0
    /\ \E s \in SeekTypes, t \in CounterTypes, z \in Values("u8") :
          \/ \E b \in Values(t), y \in 1..MaxOf("u8") :
                ret = FromBlockByteCall(s, t, b, y, z)
          \/ \E p \in Values(s) : ret = IntoBlockByteCall(s, t, p, z)

FromBlockByte ==
    /\ ret.op = "call" /\ ret.fn = "from_block_byte"
    /\ ret' = [op |-> "from_block_byte", S |-> ret.S, T |-> ret.T, block |-> ret.block,
               byte |-> ret.byte, bs |-> ret.bs,
               result |-> from_block_byte(ret.S, ret.block, ret.byte, ret.bs)]
    /\ UNCHANGED <<order, nz, pos>>

IntoBlockByte ==
    /\ ret.op = "call" /\ ret.fn = "into_block_byte"
    /\ ret' = [op |-> "into_block_byte", S |-> ret.S, T |-> ret.T,
               position |-> ret.position, bs |-> ret.bs,
               result |-> into_block_byte(ret.S, ret.T, ret.position, ret.bs)]
    /\ UNCHANGED <<order, nz, pos>>

\* The position from_block_byte returned is handed to into_block_byte,
\* with the same block size and block counter type.
IntoBlockByteOfPosition ==
    /\ ret.op = "from_block_byte" /\ ret.result.is_ok
    /\ ret' = [op |-> "from_then_into", S |-> ret.S, T |-> ret.T, block |-> ret.block,
               byte |-> ret.byte, bs |-> ret.bs, position |-> ret.result.value,
               result |-> into_block_byte(ret.S, ret.T, ret.result.value, ret.bs)]
    /\ UNCHANGED <<order, nz, pos>>

NextSeek == FromBlockByte \/ IntoBlockByte \/ IntoBlockByteOfPosition

SpecSeek == InitSeek /\ [][NextSeek]_vars

\* block * block_size - (block_size - byte) as an exact integer.
ExactPosition == ret.block * ret.bs - (ret.bs - ret.byte)

(***************************************************************************)
(* C3 as stated: for 0 < byte <= block_size, from_block_byte returns       *)
(* Ok(block * block_size - (block_size - byte)), the exact integer, or     *)
(* OverflowError if that value does not fit the position's width.          *)
(***************************************************************************)
FromBlockByteExact ==
    (ret.op = "from_block_byte" /\ 0 < ret.byte /\ ret.byte <= ret.bs) =>
        IF Fits(ExactPosition, ret.S)
        THEN ret.result.is_ok /\ ret.result.value = ExactPosition
        ELSE ~ret.result.is_ok /\ ret.result.err = OverflowError

(***************************************************************************)
(* C3 as amended: for 0 < byte <= block_size, from_block_byte returns      *)
(* Ok of the exact integer when both the product block * block_size and    *)
(* the exact value fit the position's width, and OverflowError otherwise,  *)
(* also when only the product does not fit; it never returns a wrapped     *)
(* value.                                                                  *)
(***************************************************************************)
FromBlockByteChecked ==
    (ret.op = "from_block_byte" /\ 0 < ret.byte /\ ret.byte <= ret.bs) =>
        IF Fits(ret.block * ret.bs, ret.S) /\ Fits(ExactPosition, ret.S)
        THEN ret.result.is_ok /\ ret.result.value = ExactPosition
        ELSE ~ret.result.is_ok /\ ret.result.err = OverflowError

\* The exact value fits the width, the product does not: OverflowError.
FromBlockByteWitness ==
    /\ ret.op = "from_block_byte" /\ 0 < ret.byte /\ ret.byte <= ret.bs
    /\ Fits(ExactPosition, ret.S) /\ ~Fits(ret.block * ret.bs, ret.S)
    /\ ~ret.result.is_ok

(***************************************************************************)
(* C4 as stated: for every non-negative position and every block_size,     *)
(* into_block_byte returns Ok((position div block_size, position mod       *)
(* block_size)), or OverflowError if the quotient does not fit T.          *)
(***************************************************************************)
IntoBlockByteDivMod ==
    (ret.op = "into_block_byte" /\ ret.position >= 0) =>
        IF ret.bs = 0
        THEN ret.result.is_ok \/ ret.result.err = OverflowError
        ELSE IF Fits(ret.position \div ret.bs, ret.T)
             THEN /\ ret.result.is_ok
                  /\ ret.result.value = <<ret.position \div ret.bs, ret.position % ret.bs>>
             ELSE ~ret.result.is_ok /\ ret.result.err = OverflowError

(***************************************************************************)
(* C4 as amended: the same for every block_size >= 1 (a block_size of 0    *)
(* panics on the division).                                                *)
(***************************************************************************)
IntoBlockByteDivModNonZero ==
    (ret.op = "into_block_byte" /\ ret.position >= 0 /\ ret.bs >= 1) =>
        IF Fits(ret.position \div ret.bs, ret.T)
        THEN /\ ret.result.is_ok
             /\ ret.result.value = <<ret.position \div ret.bs, ret.position % ret.bs>>
        ELSE ~ret.result.is_ok /\ ret.result.err = OverflowError

\* A quotient too large for the block counter was refused.
IntoBlockByteWitness ==
    /\ ret.op = "into_block_byte" /\ ret.position >= 0 /\ ret.bs > 1
    /\ ~Fits(ret.position \div ret.bs, ret.T)
    /\ ~ret.result.is_ok /\ ret.result.err = OverflowError

(***************************************************************************)
(* C12: whenever into_block_byte returns Ok((block, byte)) for a position  *)
(* of any supported width (any value of i32 included) and a                *)
(* block_size >= 1, byte < block_size.                                     *)
(***************************************************************************)
IntoBlockByteBounded ==
    (ret.op = "into_block_byte" /\ ret.bs >= 1 /\ ret.result.is_ok) =>
        ret.result.value[2] < ret.bs

(***************************************************************************)
(* C13: for block >= 1, block_size >= 1 and 0 < byte <= block_size, when   *)
(* from_block_byte(block, byte, block_size) is Ok(p) and block fits T,     *)
(* into_block_byte(p, block_size) is Ok((block - 1, byte)) for             *)
(* byte < block_size and Ok((block, 0)) for byte = block_size: a round     *)
(* trip up to this one-block shift, never the identity on (block, byte).   *)
(***************************************************************************)
CodecOneBlockShift ==
    (/\ ret.op = "from_then_into"
     /\ ret.block >= 1 /\ ret.bs >= 1 /\ 0 < ret.byte /\ ret.byte <= ret.bs
     /\ Fits(ret.block, ret.T)) =>
        /\ ret.result.is_ok
        /\ ret.result.value =
              IF ret.byte < ret.bs THEN <<ret.block - 1, ret.byte>> ELSE <<ret.block, 0>>
        /\ ret.result.value # <<ret.block, ret.byte>>

\* A full block (byte = block_size > 1) came back as (block, 0).
CodecShiftWitness ==
    /\ ret.op = "from_then_into"
    /\ ret.block >= 1 /\ ret.bs > 1 /\ ret.byte = ret.bs
    /\ ret.result.is_ok /\ ret.result.value = <<ret.block, 0>>

====
